---- MODULE Spec2Model ----
(***************************************************************************)
(* LuaToMermaid: generateMermaid walks a luaparse AST depth first and      *)
(* builds a node list, an edge list and the rendered flowchart text.       *)
(*                                                                         *)
(* JavaScript strings are modelled as sequences of one-character strings,  *)
(* so that label formatting, sanitizeLabel and the rendering are computed  *)
(* character by character.  The recursion of traverseNode is unfolded on   *)
(* an explicit stack of frames: one step per call of traverseNode, per     *)
(* rest of a forEach callback and per return.                              *)
(*                                                                         *)
(* The repository holds two variants of the script: ltm.js and an earlier  *)
(* one (part_000) that has fewer cases in its switch and wraps the text in *)
(* a code fence.  `variant` says which script the process runs.            *)
(*                                                                         *)
(* Three specifications: Spec is main(), one generateMermaid call on any   *)
(* program within the bounds; RunsSpec is a process that calls             *)
(* generateMermaid several times; SanSpec applies sanitizeLabel and        *)
(* createNode to arbitrary strings.                                        *)
(***************************************************************************)
EXTENDS Integers, Sequences, FiniteSets, TLC

VARIABLES
    variant,      \* which script runs: "ltm" or "part_000"
    ast,          \* the argument of the current generateMermaid call
    phase,        \* "start" | "traverse" | "done"
    nodes,        \* generateMermaid: let nodes = []
    edges,        \* generateMermaid: let edges = []
    nodeId,       \* generateMermaid: let nodeId = 0
    stack,        \* pending steps of the traversal, innermost first
    ret,          \* value returned by the traverseNode call that returned last
    mermaidCode,  \* the text generateMermaid returns
    run,          \* number of generateMermaid calls started
    history,      \* results of the completed calls, oldest first
    text,         \* SanSpec: the string given to sanitizeLabel
    sanitized,    \* SanSpec: sanitizeLabel(text)
    twice         \* SanSpec: sanitizeLabel(sanitizeLabel(text))

vars == <<variant, ast, phase, nodes, edges, nodeId, stack, ret,
          mermaidCode, run, history, text, sanitized, twice>>

---------------------------------------------------------------------------
(* Bounds *)

MaxStmts == 3       \* statements in one AST, over all nesting levels
MaxClauses == 3     \* clauses of one IfStatement
MaxRuns == 3        \* generateMermaid calls in one process (RunsSpec)
MaxLen == 3         \* length of the strings given to sanitizeLabel (SanSpec)

---------------------------------------------------------------------------
(* Strings *)

null == <<"null">>            \* JavaScript null: equal to no string
undefined == <<"undefined">>  \* JavaScript undefined: equal to no string
NoText == <<"unset">>         \* mermaidCode before it is assigned
Backquote == "backquote"      \* the character U+0060, which a TLA+ string cannot hold

Variants == {"ltm", "part_000"}

TChunk == <<"C", "h", "u", "n", "k">>
TIfStatement == <<"I", "f", "S", "t", "a", "t", "e", "m", "e", "n", "t">>
TWhileStatement ==
    <<"W", "h", "i", "l", "e", "S", "t", "a", "t", "e", "m", "e", "n", "t">>
TRepeatStatement ==
    <<"R", "e", "p", "e", "a", "t", "S", "t", "a", "t", "e", "m", "e", "n", "t">>
TFunctionDeclaration ==
    <<"F", "u", "n", "c", "t", "i", "o", "n", "D", "e", "c", "l", "a", "r",
      "a", "t", "i", "o", "n">>
TReturnStatement ==
    <<"R", "e", "t", "u", "r", "n", "S", "t", "a", "t", "e", "m", "e", "n", "t">>
TLocalStatement ==
    <<"L", "o", "c", "a", "l", "S", "t", "a", "t", "e", "m", "e", "n", "t">>

Letters ==
    {"a", "b", "c", "d", "e", "f", "g", "h", "i", "j", "k", "l", "m",
     "n", "o", "p", "q", "r", "s", "t", "u", "v", "w", "x", "y", "z",
     "A", "B", "C", "D", "E", "F", "G", "H", "I", "J", "K", "L", "M",
     "N", "O", "P", "Q", "R", "S", "T", "U", "V", "W", "X", "Y", "Z"}

Digits == {"0", "1", "2", "3", "4", "5", "6", "7", "8", "9"}

\* the character class of the regular expression, un-negated
LabelChars == Letters \cup Digits \cup {"_", " "}

\* the same with /[^a-zA-Z0-9_]/g, the space left out of the class
sanitizeLabel_NoSpace(label) ==
    [i \in 1..Len(label) |->
        IF label[i] \in (Letters \cup Digits \cup {"_"}) THEN label[i] ELSE "_"]

\* label.replace(/[^a-zA-Z0-9_ ]/g, "_")
sanitizeLabel(label) ==
    [i \in 1..Len(label) |->
        IF label[i] \in LabelChars THEN label[i] ELSE "_"]

DigitChar(d) ==
    CASE d = 0 -> "0" [] d = 1 -> "1" [] d = 2 -> "2" [] d = 3 -> "3"
      [] d = 4 -> "4" [] d = 5 -> "5" [] d = 6 -> "6" [] d = 7 -> "7"
      [] d = 8 -> "8" [] d = 9 -> "9"

RECURSIVE NumberToString(_)
\* `${n}` of a non-negative integer: its decimal digits
NumberToString(n) ==
    IF n < 10 THEN <<DigitChar(n)>>
    ELSE NumberToString(n \div 10) \o <<DigitChar(n % 10)>>

\* `node${n}`
NodeIdText(n) == <<"n", "o", "d", "e">> \o NumberToString(n)

\* if (v): null, undefined and the empty string are falsy
Truthy(v) == v /= null /\ v /= undefined /\ v /= <<>>

\* `${v}`: a string as it is, null and undefined by their names
ToText(v) ==
    IF v = null THEN <<"n", "u", "l", "l">>
    ELSE IF v = undefined THEN <<"u", "n", "d", "e", "f", "i", "n", "e", "d">>
    ELSE v

\* x.raw: undefined when x has no such property
Raw(x) == IF "raw" \in DOMAIN x THEN x.raw ELSE undefined

\* xs.map((x) => x.raw)
MapRaw(xs) == [i \in 1..Len(xs) |-> Raw(xs[i])]

\* xs.map((x) => x.name)
MapName(xs) == [i \in 1..Len(xs) |-> xs[i].name]

\* the text join() uses for one element: "" for null and undefined
JoinText(v) == IF v = null \/ v = undefined THEN <<>> ELSE v

RECURSIVE Join(_)
\* xs.join(", ")
Join(xs) ==
    IF Len(xs) = 0 THEN <<>>
    ELSE IF Len(xs) = 1 THEN JoinText(xs[1])
    ELSE JoinText(xs[1]) \o <<",", " ">> \o Join(Tail(xs))

---------------------------------------------------------------------------
(* The AST, as luaparse builds it.  A JavaScript array is the record        *)
(* [items |-> <<...>>]: it has no `type` property.                          *)

Array(seq) == [items |-> seq]

\* Array.isArray(node)
IsArray(node) == "items" \in DOMAIN node

\* node.type: undefined for an array
TypeOf(node) == IF "type" \in DOMAIN node THEN node.type ELSE undefined

Identifier(name) ==
    [type |-> <<"I", "d", "e", "n", "t", "i", "f", "i", "e", "r">>,
     name |-> name]

NumericLiteral(raw) ==
    [type |-> <<"N", "u", "m", "e", "r", "i", "c", "L", "i", "t", "e", "r",
                "a", "l">>,
     raw |-> raw]

BooleanLiteral(raw) ==
    [type |-> <<"B", "o", "o", "l", "e", "a", "n", "L", "i", "t", "e", "r",
                "a", "l">>,
     raw |-> raw]

\* local a = 1
LocalA1 ==
    [type |-> TLocalStatement,
     variables |-> Array(<<Identifier(<<"a">>)>>),
     init |-> Array(<<NumericLiteral(<<"1">>)>>)]

\* return x
ReturnX ==
    [type |-> TReturnStatement,
     arguments |-> Array(<<Identifier(<<"x">>)>>)]

\* while true do <body> end
While(body) ==
    [type |-> TWhileStatement,
     condition |-> BooleanLiteral(<<"t", "r", "u", "e">>),
     body |-> Array(body)]

\* repeat <body> until x
Repeat(body) ==
    [type |-> TRepeatStatement,
     condition |-> Identifier(<<"x">>),
     body |-> Array(body)]

\* function f() <body> end
Function(body) ==
    [type |-> TFunctionDeclaration,
     identifier |-> Identifier(<<"f">>),
     parameters |-> Array(<<>>),
     body |-> Array(body)]

\* clause i of n: `if x then`, `elseif y then`, and a closing `else` when
\* there is more than one clause
Clause(i, n, body) ==
    IF i = 1 THEN
        [type |-> <<"I", "f", "C", "l", "a", "u", "s", "e">>,
         condition |-> Identifier(<<"x">>), body |-> Array(body)]
    ELSE IF i < n THEN
        [type |-> <<"E", "l", "s", "e", "i", "f", "C", "l", "a", "u", "s", "e">>,
         condition |-> Identifier(<<"y">>), body |-> Array(body)]
    ELSE
        [type |-> <<"E", "l", "s", "e", "C", "l", "a", "u", "s", "e">>,
         body |-> Array(body)]

If(bodies) ==
    [type |-> TIfStatement,
     clauses |-> Array([i \in 1..Len(bodies) |->
                            Clause(i, Len(bodies), bodies[i])])]

Chunk(body) == [type |-> TChunk, body |-> Array(body)]

RECURSIVE StmtsOfSize(_), BodiesOfSize(_), ClauseBodies(_, _)

\* the statement lists that hold exactly m statements, nested ones included
BodiesOfSize(m) ==
    IF m = 0 THEN {<<>>}
    ELSE UNION {{<<s>> \o rest : s \in StmtsOfSize(k),
                                 rest \in BodiesOfSize(m - k)} : k \in 1..m}

\* the lists of j clause bodies that hold exactly m statements together
ClauseBodies(j, m) ==
    IF j = 0 THEN (IF m = 0 THEN {<<>>} ELSE {})
    ELSE UNION {{<<b>> \o rest : b \in BodiesOfSize(k),
                                 rest \in ClauseBodies(j - 1, m - k)} : k \in 0..m}

\* the statements that hold exactly k statements, themselves included
StmtsOfSize(k) ==
    (IF k = 1 THEN {LocalA1, ReturnX} ELSE {})
    \cup {While(b) : b \in BodiesOfSize(k - 1)}
    \cup {Repeat(b) : b \in BodiesOfSize(k - 1)}
    \cup {Function(b) : b \in BodiesOfSize(k - 1)}
    \cup UNION {{If(bs) : bs \in ClauseBodies(j, k - 1)} : j \in 1..MaxClauses}

\* what luaparse.parse can return: the programs of n statements at most
Programs(n) == {Chunk(b) : b \in UNION {BodiesOfSize(m) : m \in 0..n}}

---------------------------------------------------------------------------
(* generateMermaid: state, createNode, the switch of traverseNode           *)

\* the frames of the stack
Call(node, parentNodeId) ==
    [op |-> "traverseNode", node |-> node, parentNodeId |-> parentNodeId]
ClauseRest(conditionNode, index) ==
    [op |-> "clause", conditionNode |-> conditionNode, index |-> index]
UntilRest(node, repeatNode) ==
    [op |-> "until", node |-> node, repeatNode |-> repeatNode]
Return(currentNodeId) == [op |-> "return", currentNodeId |-> currentNodeId]

\* the case labels of the switch in source order, for the kinds of Programs
\* (ltm.js repeats the label "RepeatStatement" after "LocalStatement")
CaseLabels(v) ==
    IF v = "ltm" THEN
        << <<TChunk, "Chunk">>, <<TIfStatement, "If">>,
           <<TWhileStatement, "While">>, <<TRepeatStatement, "Repeat">>,
           <<TFunctionDeclaration, "Function">>, <<TReturnStatement, "Return">>,
           <<TLocalStatement, "Local">>, <<TRepeatStatement, "RepeatUntil">> >>
    ELSE
        << <<TChunk, "Chunk">>, <<TIfStatement, "If">>,
           <<TWhileStatement, "While">>,
           <<TFunctionDeclaration, "Function">>, <<TReturnStatement, "Return">> >>

\* switch (node.type): the first case whose label equals the type, else default
SwitchCase(v, type) ==
    LET labels == CaseLabels(v)
        hits == {i \in 1..Len(labels) : labels[i][1] = type}
    IN  IF hits = {} THEN "default"
        ELSE labels[CHOOSE i \in hits : \A j \in hits : i <= j][2]

Top == Head(stack)

\* traverseNode is entered with a node that the switch sends to case c
Enters(c) ==
    /\ phase = "traverse"
    /\ stack /= <<>>
    /\ Top.op = "traverseNode"
    /\ SwitchCase(variant, TypeOf(Top.node)) = c

\* createNode with `node${nodeId}` in the place of `node${nodeId++}`
createNode_NoIncrement(label) ==
    /\ nodes' = Append(nodes, [id |-> NodeIdText(nodeId),
                               label |-> sanitizeLabel(label)])
    /\ nodeId' = nodeId

\* createNode(label): the id it returns is NodeIdText(nodeId)
createNode(label) ==
    /\ nodes' = Append(nodes, [id |-> NodeIdText(nodeId),
                               label |-> sanitizeLabel(label)])
    /\ nodeId' = nodeId + 1

\* the link to the parent pushed twice
LinkFromParent_Twice(parentNodeId, currentNodeId) ==
    edges' = IF Truthy(parentNodeId)
             THEN edges \o <<[from |-> parentNodeId, to |-> currentNodeId],
                             [from |-> parentNodeId, to |-> currentNodeId]>>
             ELSE edges

\* if (parentNodeId) edges.push({ from: parentNodeId, to: currentNodeId })
LinkFromParent(parentNodeId, currentNodeId) ==
    edges' = IF Truthy(parentNodeId)
             THEN Append(edges, [from |-> parentNodeId, to |-> currentNodeId])
             ELSE edges

\* array.forEach((child) => traverseNode(child, parentNodeId))
ForEachCall(array, parentNodeId) ==
    [i \in 1..Len(array.items) |-> Call(array.items[i], parentNodeId)]

RECURSIVE ForEachClause(_, _, _)
\* clauses.forEach((clause, index) => { traverseNode(clause.body, c); ... })
ForEachClause(clauses, from, conditionNode) ==
    IF from > Len(clauses.items) THEN <<>>
    ELSE <<Call(clauses.items[from].body, conditionNode),
           ClauseRest(conditionNode, from - 1)>>
         \o ForEachClause(clauses, from + 1, conditionNode)

\* generateMermaid with nodes, edges and nodeId declared outside the function
GenerateMermaid_SharedState ==
    /\ phase = "start"
    /\ stack' = <<Call(ast, null)>>
    /\ ret' = null
    /\ mermaidCode' = NoText
    /\ phase' = "traverse"
    /\ run' = run + 1
    /\ UNCHANGED <<text, sanitized, twice, variant, ast, history, nodes,
                   edges, nodeId>>

\* let nodes = []; let edges = []; let nodeId = 0; traverseNode(ast)
GenerateMermaid ==
    /\ phase = "start"
    /\ nodes' = <<>>
    /\ edges' = <<>>
    /\ nodeId' = 0
    /\ stack' = <<Call(ast, null)>>
    /\ ret' = null
    /\ mermaidCode' = NoText
    /\ phase' = "traverse"
    /\ run' = run + 1
    /\ UNCHANGED <<text, sanitized, twice, variant, ast, history>>

\* the Chunk handled like the constructs with a body: a node of its own,
\* which is the parent of the top-level statements
ChunkCase_WithNode ==
    /\ Enters("Chunk")
    /\ createNode(ToText(TypeOf(Top.node)))
    /\ LinkFromParent(Top.parentNodeId, NodeIdText(nodeId))
    /\ stack' = ForEachCall(Top.node.body, NodeIdText(nodeId))
                \o <<Return(NodeIdText(nodeId))>> \o Tail(stack)
    /\ UNCHANGED <<text, sanitized, twice, variant, ast, phase, ret,
                   mermaidCode, run, history>>

\* case "Chunk"
ChunkCase ==
    /\ Enters("Chunk")
    /\ stack' = ForEachCall(Top.node.body, Top.parentNodeId)
                \o <<Return(null)>> \o Tail(stack)
    /\ UNCHANGED <<text, sanitized, twice, variant, ast, phase, nodes, edges,
                   nodeId, ret, mermaidCode, run, history>>

\* case "IfStatement"
IfStatementCase ==
    /\ Enters("If")
    /\ createNode(<<"i", "f", " ">>
                  \o ToText(Raw(Top.node.clauses.items[1].condition)))
    /\ LinkFromParent(Top.parentNodeId, NodeIdText(nodeId))
    /\ stack' = ForEachClause(Top.node.clauses, 1, NodeIdText(nodeId))
                \o <<Return(NodeIdText(nodeId))>> \o Tail(stack)
    /\ UNCHANGED <<text, sanitized, twice, variant, ast, phase, ret,
                   mermaidCode, run, history>>

\* the callback with `index >= 0` in the place of `index > 0`
ClauseEdge_EveryClause ==
    /\ phase = "traverse"
    /\ stack /= <<>>
    /\ Top.op = "clause"
    /\ edges' = Append(edges,
                       [from |-> Top.conditionNode, to |-> ret,
                        condition |-> IF Top.index = 1 THEN "No" ELSE "Else"])
    /\ stack' = Tail(stack)
    /\ UNCHANGED <<text, sanitized, twice, variant, ast, phase, nodes, nodeId,
                   ret, mermaidCode, run, history>>

\* the callback of clauses.forEach, after traverseNode(clause.body) returned
ClauseEdge ==
    /\ phase = "traverse"
    /\ stack /= <<>>
    /\ Top.op = "clause"
    /\ edges' = IF Top.index > 0
                THEN Append(edges,
                            [from |-> Top.conditionNode, to |-> ret,
                             condition |-> IF Top.index = 1 THEN "No"
                                                            ELSE "Else"])
                ELSE edges
    /\ stack' = Tail(stack)
    /\ UNCHANGED <<text, sanitized, twice, variant, ast, phase, nodes, nodeId,
                   ret, mermaidCode, run, history>>

\* case "WhileStatement"
WhileStatementCase ==
    /\ Enters("While")
    /\ createNode(<<"w", "h", "i", "l", "e", " ">>
                  \o ToText(Raw(Top.node.condition)))
    /\ LinkFromParent(Top.parentNodeId, NodeIdText(nodeId))
    /\ stack' = <<Call(Top.node.body, NodeIdText(nodeId)),
                  Return(NodeIdText(nodeId))>> \o Tail(stack)
    /\ UNCHANGED <<text, sanitized, twice, variant, ast, phase, ret,
                   mermaidCode, run, history>>

\* the statements of the second `case "RepeatStatement"` of ltm.js, which the
\* switch never reaches, in the place of those of the first: a single
\* `until` node that is the parent of the body
RepeatStatementSecondCase ==
    /\ phase = "traverse"
    /\ stack /= <<>>
    /\ Top.op = "traverseNode"
    /\ TypeOf(Top.node) = TRepeatStatement
    /\ variant = "ltm"
    /\ createNode(<<"u", "n", "t", "i", "l", " ">>
                  \o ToText(Raw(Top.node.condition)))
    /\ LinkFromParent(Top.parentNodeId, NodeIdText(nodeId))
    /\ stack' = <<Call(Top.node.body, NodeIdText(nodeId)),
                  Return(NodeIdText(nodeId))>> \o Tail(stack)
    /\ UNCHANGED <<text, sanitized, twice, variant, ast, phase, ret,
                   mermaidCode, run, history>>

\* ltm.js, the first case "RepeatStatement", up to the traversal of the body
RepeatStatementCase ==
    /\ Enters("Repeat")
    /\ createNode(<<"r", "e", "p", "e", "a", "t">>)
    /\ LinkFromParent(Top.parentNodeId, NodeIdText(nodeId))
    /\ stack' = <<Call(Top.node.body, NodeIdText(nodeId)),
                  UntilRest(Top.node, NodeIdText(nodeId)),
                  Return(NodeIdText(nodeId))>> \o Tail(stack)
    /\ UNCHANGED <<text, sanitized, twice, variant, ast, phase, ret,
                   mermaidCode, run, history>>

\* ltm.js, the first case "RepeatStatement", after the traversal of the body
RepeatUntil ==
    /\ phase = "traverse"
    /\ stack /= <<>>
    /\ Top.op = "until"
    /\ createNode(<<"u", "n", "t", "i", "l", " ">>
                  \o ToText(Raw(Top.node.condition)))
    /\ edges' = Append(edges, [from |-> Top.repeatNode,
                               to |-> NodeIdText(nodeId)])
    /\ stack' = Tail(stack)
    /\ UNCHANGED <<text, sanitized, twice, variant, ast, phase, ret,
                   mermaidCode, run, history>>

\* case "FunctionDeclaration"
FunctionDeclarationCase ==
    /\ Enters("Function")
    /\ createNode(<<"f", "u", "n", "c", "t", "i", "o", "n", " ">>
                  \o ToText(Top.node.identifier.name) \o <<"(">>
                  \o ToText(Join(MapName(Top.node.parameters.items)))
                  \o <<")">>)
    /\ LinkFromParent(Top.parentNodeId, NodeIdText(nodeId))
    /\ stack' = <<Call(Top.node.body, NodeIdText(nodeId)),
                  Return(NodeIdText(nodeId))>> \o Tail(stack)
    /\ UNCHANGED <<text, sanitized, twice, variant, ast, phase, ret,
                   mermaidCode, run, history>>

\* case "ReturnStatement"
ReturnStatementCase ==
    /\ Enters("Return")
    /\ createNode(<<"r", "e", "t", "u", "r", "n", " ">>
                  \o ToText(Join(MapRaw(Top.node.arguments.items))))
    /\ LinkFromParent(Top.parentNodeId, NodeIdText(nodeId))
    /\ ret' = NodeIdText(nodeId)
    /\ stack' = Tail(stack)
    /\ UNCHANGED <<text, sanitized, twice, variant, ast, phase, mermaidCode,
                   run, history>>

\* ltm.js, case "LocalStatement"
LocalStatementCase ==
    /\ Enters("Local")
    /\ createNode(<<"l", "o", "c", "a", "l", " ">>
                  \o ToText(Join(MapName(Top.node.variables.items)))
                  \o <<" ", "=", " ">>
                  \o ToText(Join(MapRaw(Top.node.init.items))))
    /\ LinkFromParent(Top.parentNodeId, NodeIdText(nodeId))
    /\ ret' = NodeIdText(nodeId)
    /\ stack' = Tail(stack)
    /\ UNCHANGED <<text, sanitized, twice, variant, ast, phase, mermaidCode,
                   run, history>>

\* default: an array is traversed element by element, anything else gets a
\* node labelled with its type
DefaultCase ==
    /\ Enters("default")
    /\ IF IsArray(Top.node)
       THEN /\ stack' = ForEachCall(Top.node, Top.parentNodeId)
                        \o <<Return(null)>> \o Tail(stack)
            /\ UNCHANGED <<nodes, edges, nodeId, ret>>
       ELSE /\ createNode(ToText(TypeOf(Top.node)))
            /\ LinkFromParent(Top.parentNodeId, NodeIdText(nodeId))
            /\ ret' = NodeIdText(nodeId)
            /\ stack' = Tail(stack)
    /\ UNCHANGED <<text, sanitized, twice, variant, ast, phase, mermaidCode,
                   run, history>>

\* return currentNodeId
ReturnCurrentNodeId ==
    /\ phase = "traverse"
    /\ stack /= <<>>
    /\ Top.op = "return"
    /\ ret' = Top.currentNodeId
    /\ stack' = Tail(stack)
    /\ UNCHANGED <<text, sanitized, twice, variant, ast, phase, nodes, edges,
                   nodeId, mermaidCode, run, history>>

RECURSIVE NodeLines(_), EdgeLines(_)
\* nodes.forEach((node) => { mermaidCode += `  ${node.id}[${node.label}];\n` })
NodeLines(ns) ==
    IF ns = <<>> THEN <<>>
    ELSE <<" ", " ">> \o ToText(ns[1].id) \o <<"[">> \o ToText(ns[1].label)
         \o <<"]", ";", "\n">> \o NodeLines(Tail(ns))

\* edges.forEach((edge) => { mermaidCode += `  ${edge.from}-->${edge.to};\n` })
EdgeLines(es) ==
    IF es = <<>> THEN <<>>
    ELSE <<" ", " ">> \o ToText(es[1].from) \o <<"-", "-", ">">>
         \o ToText(es[1].to) \o <<";", "\n">> \o EdgeLines(Tail(es))

\* the text built after the traversal
Rendering(v, ns, es) ==
    IF v = "ltm"
    THEN <<"g", "r", "a", "p", "h", " ", "T", "D", ";", "\n">>
         \o NodeLines(ns) \o EdgeLines(es)
    ELSE <<Backquote, Backquote, Backquote,
           "m", "e", "r", "m", "a", "i", "d", "\n">>
         \o <<"g", "r", "a", "p", "h", " ", "T", "D", ";", "\n">>
         \o NodeLines(ns) \o EdgeLines(es)
         \o <<Backquote, Backquote, Backquote>>

\* traverseNode(ast) has returned: build the text and return it
Render ==
    /\ phase = "traverse"
    /\ stack = <<>>
    /\ mermaidCode' = Rendering(variant, nodes, edges)
    /\ phase' = "done"
    /\ history' = Append(history,
                         [ast |-> ast, nodes |-> nodes, edges |-> edges,
                          mermaidCode |-> Rendering(variant, nodes, edges)])
    /\ UNCHANGED <<text, sanitized, twice, variant, ast, nodes, edges, nodeId,
                   stack, ret, run>>

Traverse ==
    \/ ChunkCase
    \/ IfStatementCase
    \/ ClauseEdge
    \/ WhileStatementCase
    \/ RepeatStatementCase
    \/ RepeatUntil
    \/ FunctionDeclarationCase
    \/ ReturnStatementCase
    \/ LocalStatementCase
    \/ DefaultCase
    \/ ReturnCurrentNodeId

\* main(): one generateMermaid call on the parsed file
Init ==
    /\ variant \in Variants
    /\ ast \in Programs(MaxStmts)
    /\ phase = "start"
    /\ nodes = <<>>
    /\ edges = <<>>
    /\ nodeId = 0
    /\ stack = <<>>
    /\ ret = null
    /\ mermaidCode = NoText
    /\ run = 0
    /\ history = <<>>
    /\ text = <<>>
    /\ sanitized = NoText
    /\ twice = NoText

Next ==
    \/ GenerateMermaid
    \/ Traverse
    \/ Render

Spec == Init /\ [][Next]_vars

---------------------------------------------------------------------------
(* RunsSpec: generateMermaid called several times in one process            *)

\* the ASTs of the calls
RunPrograms ==
    {Chunk(<<>>),
     Chunk(<<LocalA1>>),
     Chunk(<<If(<< <<ReturnX>>, <<LocalA1>> >>)>>),
     Chunk(<<Repeat(<<While(<<>>)>>), Function(<<ReturnX>>)>>)}

\* the caller calls generateMermaid again, on any AST
NextCall ==
    /\ phase = "done"
    /\ run < MaxRuns
    /\ \E a \in RunPrograms : ast' = a
    /\ phase' = "start"
    /\ UNCHANGED <<text, sanitized, twice, variant, nodes, edges, nodeId,
                   stack, ret, mermaidCode, run, history>>

RunsInit ==
    /\ variant \in Variants
    /\ ast \in RunPrograms
    /\ phase = "start"
    /\ nodes = <<>>
    /\ edges = <<>>
    /\ nodeId = 0
    /\ stack = <<>>
    /\ ret = null
    /\ mermaidCode = NoText
    /\ run = 0
    /\ history = <<>>
    /\ text = <<>>
    /\ sanitized = NoText
    /\ twice = NoText

RunsNext ==
    \/ GenerateMermaid
    \/ Traverse
    \/ Render
    \/ NextCall

RunsSpec == RunsInit /\ [][RunsNext]_vars

---------------------------------------------------------------------------
(* SanSpec: sanitizeLabel and createNode on arbitrary strings               *)

\* characters inside and outside the class of sanitizeLabel
SanAlphabet == {"a", "Z", "7", "_", " ", "=", "(", "\n"}

Texts == UNION {[1..k -> SanAlphabet] : k \in 0..MaxLen}

SanInit ==
    /\ variant \in Variants
    /\ ast = Chunk(<<>>)
    /\ phase = "sanitize"
    /\ nodes = <<>>
    /\ edges = <<>>
    /\ nodeId = 0
    /\ stack = <<>>
    /\ ret = null
    /\ mermaidCode = NoText
    /\ run = 0
    /\ history = <<>>
    /\ text \in Texts
    /\ sanitized = NoText
    /\ twice = NoText

\* sanitizeLabel(text)
SanitizeLabel ==
    /\ phase = "sanitize"
    /\ sanitized = NoText
    /\ sanitized' = sanitizeLabel(text)
    /\ UNCHANGED <<text, twice, variant, ast, phase, nodes, edges, nodeId,
                   stack, ret, mermaidCode, run, history>>

\* sanitizeLabel(sanitizeLabel(text))
SanitizeAgain ==
    /\ phase = "sanitize"
    /\ sanitized /= NoText
    /\ twice = NoText
    /\ twice' = sanitizeLabel(sanitized)
    /\ UNCHANGED <<text, sanitized, variant, ast, phase, nodes, edges, nodeId,
                   stack, ret, mermaidCode, run, history>>

\* createNode(text), once
CreateNode ==
    /\ phase = "sanitize"
    /\ nodes = <<>>
    /\ createNode(text)
    /\ UNCHANGED <<text, sanitized, twice, variant, ast, phase, edges, stack,
                   ret, mermaidCode, run, history>>

SanNext ==
    \/ SanitizeLabel
    \/ SanitizeAgain
    \/ CreateNode

SanSpec == SanInit /\ [][SanNext]_vars

---------------------------------------------------------------------------
(* Properties *)

NodeIds == {nodes[i].id : i \in DOMAIN nodes}

\* the edge carries a branch label
HasCondition(e) == "condition" \in DOMAIN e

\* the number in a node id
IdNumber(id) == CHOOSE k \in 0..Len(nodes) : NodeIdText(k) = id

LabelOf(id) == nodes[CHOOSE i \in DOMAIN nodes : nodes[i].id = id].label

IsPrefix(p, s) == Len(s) >= Len(p) /\ SubSeq(s, 1, Len(p)) = p

Terminals == {LocalA1, ReturnX}

\* C1: every edge goes from a node of the node list to a node of the node
\* list; no edge has a null or absent endpoint, at any moment of the run.
C1_NoDanglingEdge ==
    \A i \in DOMAIN edges :
        /\ edges[i].from \in NodeIds
        /\ edges[i].to \in NodeIds

\* `if x then <terminal> else <terminal> end` as the whole program
TwoClauseIfs ==
    {Chunk(<<If(<< <<s>>, <<t>> >>)>>) : s \in Terminals, t \in Terminals}

\* C2: a top-level if with two clauses of one terminal statement each gives
\* exactly 3 nodes and exactly 2 edges: if -> clause 0 statement without a
\* branch label, if -> clause 1 statement with the branch label "No".
C2_TwoClauseIf ==
    (phase = "done" /\ ast \in TwoClauseIfs) =>
        /\ Len(nodes) = 3
        /\ edges = << [from |-> NodeIdText(0), to |-> NodeIdText(1)],
                      [from |-> NodeIdText(0), to |-> NodeIdText(2),
                       condition |-> "No"] >>

\* C3: no node id is the `to` of two edges without a branch label.
C3_OneStructuralParent ==
    \A n \in NodeIds :
        Cardinality({i \in DOMAIN edges :
                        ~HasCondition(edges[i]) /\ edges[i].to = n}) <= 1

\* a finished run with a construct nested in a construct, every nested node
\* having its one structural parent
C3_Witness ==
    /\ phase = "done"
    /\ \E i, j \in DOMAIN edges :
          /\ ~HasCondition(edges[i]) /\ ~HasCondition(edges[j])
          /\ edges[i].to = edges[j].from
    /\ \E i \in DOMAIN edges : HasCondition(edges[i])

\* the expressions whose source text the label of the node reads
LabelExprs(v, node) ==
    LET c == SwitchCase(v, TypeOf(node))
    IN  IF c = "If" THEN {node.clauses.items[1].condition}
        ELSE IF c = "While" THEN {node.condition}
        ELSE IF c = "Return"
             THEN {node.arguments.items[i] : i \in DOMAIN node.arguments.items}
        ELSE IF c = "Local"
             THEN {node.init.items[i] : i \in DOMAIN node.init.items}
        ELSE {}

\* C4: when the node traverseNode is entered with lacks the source text its
\* label needs, the step appends no node and no edge.
C4_FailFast ==
    [][(/\ phase = "traverse"
        /\ stack /= <<>>
        /\ Top.op = "traverseNode"
        /\ \E x \in LabelExprs(variant, Top.node) : Raw(x) = undefined)
       => (nodes' = nodes /\ edges' = edges)]_vars

\* C5: the node list has as many nodes as the counter says, its k-th node has
\* the id node(k-1), no id occurs twice, and every edge to a node goes from a
\* smaller id number to a larger one.
C5_IdsSequential ==
    /\ Len(nodes) = nodeId
    /\ \A k \in DOMAIN nodes : nodes[k].id = NodeIdText(k - 1)
    /\ \A i, j \in DOMAIN nodes : i /= j => nodes[i].id /= nodes[j].id
    /\ \A i \in DOMAIN edges :
          edges[i].to \in NodeIds =>
              /\ edges[i].from \in NodeIds
              /\ IdNumber(edges[i].from) < IdNumber(edges[i].to)

\* a finished run with several nodes and a chain of two edges
C5_Witness ==
    /\ phase = "done"
    /\ nodeId >= 3
    /\ \E i, j \in DOMAIN edges :
          edges[i].to \in NodeIds /\ edges[j].from = edges[i].to
                                  /\ edges[j].to \in NodeIds

\* the nodes no edge points to
Roots == {n \in NodeIds : \A i \in DOMAIN edges : edges[i].to /= n}

\* a pending call of traverseNode on a statement, without a parent
IsParentlessCall(f) ==
    f.op = "traverseNode" /\ f.parentNodeId = null /\ f.node /= ast

C7_Sanitize ==
    /\ sanitized /= NoText =>
          /\ Len(sanitized) = Len(text)
          /\ \A i \in 1..Len(text) :
                sanitized[i] = IF text[i] \in LabelChars THEN text[i] ELSE "_"
    /\ twice /= NoText => twice = sanitized
    /\ \A i \in DOMAIN nodes :
          \A k \in 1..Len(nodes[i].label) : nodes[i].label[k] \in LabelChars

\* a string with characters inside and outside the class, sanitized once,
\* twice, and stored by createNode
C7_Witness ==
    /\ sanitized /= NoText
    /\ twice /= NoText
    /\ nodes /= <<>>
    /\ \E i, j \in 1..Len(text) :
          text[i] \in LabelChars /\ text[i] /= "_" /\ text[j] \notin LabelChars

\* C8: every call starts from empty lists and counter 0, two calls on the
\* same AST give the same node list, edge list and text whatever was called
\* in between, and the text lists the nodes and then the edges in creation
\* order.
C8_RunsIndependent ==
    /\ (phase = "traverse" /\ stack = <<Call(ast, null)>>) =>
          (nodes = <<>> /\ edges = <<>> /\ nodeId = 0)
    /\ \A i, j \in DOMAIN history :
          history[i].ast = history[j].ast =>
              /\ history[i].nodes = history[j].nodes
              /\ history[i].edges = history[j].edges
              /\ history[i].mermaidCode = history[j].mermaidCode
    /\ \A i \in DOMAIN history :
          \E k \in 10..Len(history[i].mermaidCode) :
              LET lines == NodeLines(history[i].nodes)
                           \o EdgeLines(history[i].edges)
                  rest == SubSeq(history[i].mermaidCode, k + 1,
                                 Len(history[i].mermaidCode))
              IN  /\ SubSeq(history[i].mermaidCode, k - 9, k)
                        = <<"g", "r", "a", "p", "h", " ", "T", "D", ";", "\n">>
                  /\ IsPrefix(lines, rest)
                  /\ Len(rest) - Len(lines) \in {0, 3}

\* three calls: an AST, another AST, the first AST again
C8_Witness ==
    /\ Len(history) = 3
    /\ history[1].ast = history[3].ast
    /\ history[2].ast /= history[1].ast
    /\ history[2].nodes /= <<>>
    /\ Len(history[1].nodes) >= 2

\* what traverseNode can descend into
Children(node) ==
    IF IsArray(node) THEN node.items
    ELSE IF TypeOf(node) = TIfStatement
         THEN [i \in 1..Len(node.clauses.items) |-> node.clauses.items[i].body]
    ELSE IF "body" \in DOMAIN node THEN <<node.body>>
    ELSE <<>>

RECURSIVE CountType(_, _), CountTypeIn(_, _)
\* the number of nodes of type t in the tree
CountType(node, t) ==
    (IF TypeOf(node) = t THEN 1 ELSE 0) + CountTypeIn(Children(node), t)
CountTypeIn(seq, t) ==
    IF seq = <<>> THEN 0
    ELSE CountType(Head(seq), t) + CountTypeIn(Tail(seq), t)

IsBranchEdgeOfNode0(e) == HasCondition(e) /\ e.from = NodeIdText(0)
IsPlainEdgeOfNode0(e) == ~HasCondition(e) /\ e.from = NodeIdText(0)

RECURSIVE BodyLengths(_)
BodyLengths(clauses) ==
    IF clauses = <<>> THEN 0
    ELSE Len(Head(clauses).body.items) + BodyLengths(Tail(clauses))

\* the program starts with an if statement
FirstIsIf ==
    /\ ast.body.items /= <<>>
    /\ ast.body.items[1].type = TIfStatement

\* the finished run on a program that starts with an if of n clauses: node0
\* is labelled from the condition of clause 0, no other node is an if node
\* unless the program holds another if, every statement of every clause body
\* is a child of node0, and node0 has n - 1 branch edges, "No" first and
\* "Else" after it
C9_IfResult ==
    (phase = "done" /\ FirstIsIf) =>
        LET clauses == ast.body.items[1].clauses.items
            branch == SelectSeq(edges, IsBranchEdgeOfNode0)
            plain == SelectSeq(edges, IsPlainEdgeOfNode0)
        IN  /\ nodes[1].label =
                  sanitizeLabel(<<"i", "f", " ">>
                                \o ToText(Raw(clauses[1].condition)))
            /\ CountType(ast, TIfStatement) = 1 =>
                  Cardinality({i \in DOMAIN nodes :
                      IsPrefix(<<"i", "f", " ">>, nodes[i].label)}) = 1
            /\ Len(plain) = BodyLengths(clauses)
            /\ Len(branch) = Len(clauses) - 1
            /\ \A k \in DOMAIN branch :
                  branch[k].condition = IF k = 1 THEN "No" ELSE "Else"

\* the step after the traversal of a clause body: for an index >= 1 it
\* appends the edge from the condition node to the value that traversal
\* returned, for index 0 it appends nothing
C9_ClauseStep ==
    (phase = "traverse" /\ stack /= <<>> /\ Top.op = "clause") =>
        IF Top.index = 0 THEN edges' = edges
        ELSE /\ Len(edges') = Len(edges) + 1
             /\ SubSeq(edges', 1, Len(edges)) = edges
             /\ edges'[Len(edges')].from = Top.conditionNode
             /\ edges'[Len(edges')].to = ret
             /\ HasCondition(edges'[Len(edges')])

\* C9: an if statement of n clauses gives one condition node labelled from
\* clause 0, every clause body traversed under that node, and n - 1 branch
\* edges from it in clause order, to the id the traversal of the clause body
\* returned, labelled "No" for index 1 and "Else" from index 2 on.
C9_IfClauses == [](C9_IfResult) /\ [][C9_ClauseStep]_vars

\* a finished run on a program that starts with an if of three clauses
C9_Witness ==
    /\ phase = "done"
    /\ FirstIsIf
    /\ Len(ast.body.items[1].clauses.items) = 3
    /\ \E i \in DOMAIN edges :
          HasCondition(edges[i]) /\ edges[i].condition = "Else"

UntilText == <<"u", "n", "t", "i", "l", " ">>
RepeatText == <<"r", "e", "p", "e", "a", "t">>

RECURSIVE ReachFrom(_, _)
\* what k edges at most lead to from the ids of from
ReachFrom(from, k) ==
    IF k = 0 THEN from
    ELSE ReachFrom(from \cup {edges[i].to :
                                 i \in {j \in DOMAIN edges :
                                           edges[j].from \in from}}, k - 1)

====
